---- MODULE Spec2Model ----
(***************************************************************************)
(* Model of infusion_roi_app.py: a Streamlit script that is re-executed    *)
(* from the top on every interaction of one browser session.  The only     *)
(* state that outlives a run is st.session_state["authenticated"]; every   *)
(* other name is rebound by the run that reaches its assignment.           *)
(*                                                                         *)
(* Python floats are modelled by exact rationals <<n, d>> in lowest terms  *)
(* with d > 0 (rounding error of IEEE doubles is outside the model).       *)
(***************************************************************************)
EXTENDS Integers, Sequences, FiniteSets, TLC

(* ------------------------------ bounds -------------------------------- *)

\* Largest forecast_years the input step enumerates.
MaxYears == 3

(* ------------------------- rational arithmetic ------------------------ *)

Abs(x) == IF x < 0 THEN -x ELSE x

RECURSIVE Gcd(_, _)
Gcd(a, b) == IF b = 0 THEN a ELSE Gcd(b, a % b)

\* The rational n/d (d # 0) in lowest terms with a positive denominator.
Norm(n, d) ==
    LET g == Gcd(Abs(n), Abs(d))
        s == IF d < 0 THEN -1 ELSE 1
    IN  <<(s * n) \div g, (s * d) \div g>>

\* An int (or a whole float) as a rational.
R(n) == <<n, 1>>

\* Placeholder of a name no statement of the current run has bound yet.
Undef == <<0, 0>>

RAdd(a, b) ==
    LET g == Gcd(a[2], b[2])
        l == (a[2] \div g) * b[2]
    IN  Norm(a[1] * (l \div a[2]) + b[1] * (l \div b[2]), l)

RNeg(a) == <<-a[1], a[2]>>

RSub(a, b) == RAdd(a, RNeg(b))

RMul(a, b) ==
    LET g1 == Gcd(Abs(a[1]), b[2])
        g2 == Gcd(Abs(b[1]), a[2])
    IN  IF a[1] = 0 \/ b[1] = 0 THEN R(0)
        ELSE <<(a[1] \div g1) * (b[1] \div g2), (a[2] \div g2) * (b[2] \div g1)>>

\* a / b for b # 0.
RDiv(a, b) == RMul(a, Norm(b[2], b[1]))

RLe(a, b) == a[1] * b[2] <= b[1] * a[2]

\* Python's min(a, b): b only when b < a.
RMin(a, b) == IF RLe(a, b) THEN a ELSE b

\* a ** k for an int k >= 0.
RECURSIVE RPow(_, _)
RPow(a, k) == IF k = 0 THEN R(1) ELSE RMul(a, RPow(a, k - 1))

\* np.ceil: the least whole number >= a, still a float.
RCeil(a) == R(-((-a[1]) \div a[2]))

\* np.round: to the nearest whole number, ties to the even one.
RRound(a) ==
    LET q == a[1] \div a[2]
        r == a[1] % a[2]
    IN  IF 2 * r < a[2] THEN q
        ELSE IF 2 * r > a[2] THEN q + 1
        ELSE IF q % 2 = 0 THEN q ELSE q + 1

\* sum(s[:k]) started from 0, left to right.
RECURSIVE RSum(_, _)
RSum(s, k) == IF k = 0 THEN R(0) ELSE RAdd(RSum(s, k - 1), s[k])

\* Faulty variant of Range: the upper limit is included.
RangeInclusive(n) == 0 .. n

\* range(n): the loop indices 0 .. n-1 (empty when n <= 0).
Range(n) == 0 .. (n - 1)

(* ------------------------------- state -------------------------------- *)

VARIABLES
    authenticated,        \* st.session_state["authenticated"]
    password,             \* value of the password text_input in this run
    pc,                   \* position of the current script run
    inputs,               \* the sidebar widgets' values of this run
    capital_cost_total,
    rn_fte_required,
    rn_cost_total,
    max_visits,
    year,                 \* loop variable of the two for loops
    visits_per_year,
    utilization_by_year,
    revenue,
    supply_costs,
    operating_costs,
    net_income,
    cash,
    total_npv,
    cumulative_cashflow,
    discounted_cashflow,
    cumulative_npv,
    summary_df,
    final_npv,
    emitted               \* result elements sent to the page by this run

calcVars == <<capital_cost_total, rn_fte_required, rn_cost_total, max_visits>>
visitVars == <<visits_per_year, utilization_by_year>>
finVars == <<revenue, supply_costs, operating_costs, net_income>>
dcfVars == <<cash, total_npv, cumulative_cashflow, discounted_cashflow, cumulative_npv>>
outVars == <<summary_df, final_npv, emitted>>

vars == <<authenticated, password, pc, inputs, year,
          calcVars, visitVars, finVars, dcfVars, outVars>>

PASSWORD == "CRMC2024"

\* What a user may type into the password box.
Passwords == {"", "letmein", PASSWORD}

\* Values the widgets may hold.  number_input has no min_value, so negative
\* numbers and zero are enterable; the sliders are confined to their ranges.
NumChairsDom == {5, 20}
SqftDom == {10}
CostPerSqftDom == {-1, 4}
EquipmentDom == {0, 20}
InitialUtilDom == {50, 90}
MaxUtilDom == {60, 100}
GrowthDom == {0, 100}
RnCostDom == {9}
ChairsPerRnDom == {0, 3, 4}
ShiftsDom == {1, 2}
SupplyDom == {5}
OverheadDom == {-3, 30}
ReimbursementDom == {12}
VisitsPerChairDom == {3}
DaysDom == {10}
ForecastDom == 0 .. MaxYears
DiscountDom == {0, 100}

\* The widgets' record before line 25 has run: no real input has 0 chairs.
NoInputs ==
    [ num_chairs |-> 0, sqft_per_chair |-> 0, cost_per_sqft |-> 0,
      equipment_cost_per_chair |-> 0, initial_utilization |-> R(0),
      max_utilization |-> R(0), annual_growth |-> R(0), rn_cost |-> 0,
      chairs_per_rn |-> 0, shifts_per_day |-> 0, supply_cost_per_visit |-> 0,
      overhead_cost |-> 0, reimbursement |-> 0,
      visits_per_chair_per_day |-> R(0), days_per_year |-> 0,
      forecast_years |-> 0, discount_rate |-> R(0) ]

NoFrame == [Year |-> <<>>]

\* The script's names at the top of a run: nothing is bound yet.
FreshRun ==
    /\ inputs = NoInputs
    /\ capital_cost_total = Undef
    /\ rn_fte_required = Undef
    /\ rn_cost_total = Undef
    /\ max_visits = Undef
    /\ year = 0
    /\ visits_per_year = <<>>
    /\ utilization_by_year = <<>>
    /\ revenue = <<>>
    /\ supply_costs = <<>>
    /\ operating_costs = <<>>
    /\ net_income = <<>>
    /\ cash = Undef
    /\ total_npv = Undef
    /\ cumulative_cashflow = <<>>
    /\ discounted_cashflow = <<>>
    /\ cumulative_npv = <<>>
    /\ summary_df = NoFrame
    /\ final_npv = Undef
    /\ emitted = <<>>

Init ==
    /\ authenticated = FALSE
    /\ password = ""
    /\ pc = "gate"
    /\ FreshRun

(* ---------------------------- the gate -------------------------------- *)

\* Lines 13, 22: the flag is set, the gate block is skipped.
GatePass ==
    /\ pc = "gate"
    /\ authenticated
    /\ pc' = "inputs"
    /\ UNCHANGED <<authenticated, password, inputs, year,
                   calcVars, visitVars, finVars, dcfVars, outVars>>

\* Lines 13-18: the right password sets the flag and st.rerun() abandons this
\* run; the script starts again from the top.
GateLogin ==
    /\ pc = "gate"
    /\ ~authenticated
    /\ \E p \in Passwords :
        /\ p = PASSWORD
        /\ password' = p
    /\ authenticated' = TRUE
    /\ pc' = "gate"
    /\ UNCHANGED <<inputs, year, calcVars, visitVars, finVars, dcfVars, outVars>>

\* Faulty variant of GateStop: st.stop() is missing and the run falls through.
GateFallsThrough ==
    /\ pc = "gate"
    /\ ~authenticated
    /\ \E p \in Passwords :
        /\ p # PASSWORD
        /\ password' = p
    /\ pc' = "inputs"
    /\ UNCHANGED <<authenticated, inputs, year,
                   calcVars, visitVars, finVars, dcfVars, outVars>>

\* Lines 13-20: any other password ends the run at st.stop().
GateStop ==
    /\ pc = "gate"
    /\ ~authenticated
    /\ \E p \in Passwords :
        /\ p # PASSWORD
        /\ password' = p
    /\ pc' = "stopped"
    /\ UNCHANGED <<authenticated, inputs, year,
                   calcVars, visitVars, finVars, dcfVars, outVars>>

\* A widget interaction after a run has ended: Streamlit executes the script
\* again from line 1 in the same session.  Only session_state survives.
Rerun ==
    /\ pc \in {"stopped", "done", "failed"}
    /\ pc' = "gate"
    /\ password' = ""
    /\ inputs' = NoInputs
    /\ capital_cost_total' = Undef
    /\ rn_fte_required' = Undef
    /\ rn_cost_total' = Undef
    /\ max_visits' = Undef
    /\ year' = 0
    /\ visits_per_year' = <<>>
    /\ utilization_by_year' = <<>>
    /\ revenue' = <<>>
    /\ supply_costs' = <<>>
    /\ operating_costs' = <<>>
    /\ net_income' = <<>>
    /\ cash' = Undef
    /\ total_npv' = Undef
    /\ cumulative_cashflow' = <<>>
    /\ discounted_cashflow' = <<>>
    /\ cumulative_npv' = <<>>
    /\ summary_df' = NoFrame
    /\ final_npv' = Undef
    /\ emitted' = <<>>
    /\ UNCHANGED authenticated

(* ---------------------------- the inputs ------------------------------ *)

\* Lines 25-54: the widgets' values; the percent sliders and the discount
\* rate are divided by 100 where they are read.
ReadInputs ==
    /\ pc = "inputs"
    /\ \E nc \in NumChairsDom, sq \in SqftDom, cs \in CostPerSqftDom,
          eq \in EquipmentDom, iu \in InitialUtilDom, mu \in MaxUtilDom,
          ag \in GrowthDom, rc \in RnCostDom, cr \in ChairsPerRnDom,
          sh \in ShiftsDom, sc \in SupplyDom, oc \in OverheadDom,
          re \in ReimbursementDom, vc \in VisitsPerChairDom, dy \in DaysDom,
          fy \in ForecastDom, dr \in DiscountDom :
        inputs' = [ num_chairs |-> nc,
                    sqft_per_chair |-> sq,
                    cost_per_sqft |-> cs,
                    equipment_cost_per_chair |-> eq,
                    initial_utilization |-> Norm(iu, 100),
                    max_utilization |-> Norm(mu, 100),
                    annual_growth |-> Norm(ag, 1000),
                    rn_cost |-> rc,
                    chairs_per_rn |-> cr,
                    shifts_per_day |-> sh,
                    supply_cost_per_visit |-> sc,
                    overhead_cost |-> oc,
                    reimbursement |-> re,
                    visits_per_chair_per_day |-> R(vc),
                    days_per_year |-> dy,
                    forecast_years |-> fy,
                    discount_rate |-> Norm(dr, 100) ]
    /\ pc' = "capital"
    /\ UNCHANGED <<authenticated, password, year,
                   calcVars, visitVars, finVars, dcfVars, outVars>>

(* -------------------------- the calculations -------------------------- *)

\* Faulty variant of CapitalCostTotal: the equipment is left out.
CapitalCostNoEquipment(i) ==
    R(i.num_chairs * i.sqft_per_chair * i.cost_per_sqft)

\* Lines 57-60, all int arithmetic.
CapitalCostTotal(i) ==
    LET facility_sqft == i.num_chairs * i.sqft_per_chair
        construction_cost == facility_sqft * i.cost_per_sqft
        equipment_cost == i.num_chairs * i.equipment_cost_per_chair
    IN  R(construction_cost + equipment_cost)

Capital ==
    /\ pc = "capital"
    /\ capital_cost_total' = CapitalCostTotal(inputs)
    /\ pc' = "staffing"
    /\ UNCHANGED <<authenticated, password, inputs, year, rn_fte_required,
                   rn_cost_total, max_visits, visitVars, finVars, dcfVars, outVars>>

\* Faulty variant of RnFteRequired: the fraction is dropped, not rounded up.
RnFteFloor(i) ==
    R((i.num_chairs * i.shifts_per_day) \div i.chairs_per_rn)

\* Line 62, for chairs_per_rn # 0.
RnFteRequired(i) ==
    RCeil(RMul(Norm(i.num_chairs, i.chairs_per_rn), R(i.shifts_per_day)))

\* Lines 62-63.
Staffing ==
    /\ pc = "staffing"
    /\ inputs.chairs_per_rn # 0
    /\ rn_fte_required' = RnFteRequired(inputs)
    /\ rn_cost_total' = RMul(RnFteRequired(inputs), R(inputs.rn_cost))
    /\ pc' = "max_visits"
    /\ UNCHANGED <<authenticated, password, inputs, year, capital_cost_total,
                   max_visits, visitVars, finVars, dcfVars, outVars>>

\* Line 62 with chairs_per_rn = 0: int / int raises ZeroDivisionError and the
\* run ends there.
StaffingZeroDivision ==
    /\ pc = "staffing"
    /\ inputs.chairs_per_rn = 0
    /\ pc' = "failed"
    /\ UNCHANGED <<authenticated, password, inputs, year,
                   calcVars, visitVars, finVars, dcfVars, outVars>>

\* Lines 65-69.
MaxVisits ==
    /\ pc = "max_visits"
    /\ max_visits' = RMul(RMul(R(inputs.num_chairs), inputs.visits_per_chair_per_day),
                          R(inputs.days_per_year))
    /\ visits_per_year' = <<>>
    /\ utilization_by_year' = <<>>
    /\ year' = 0
    /\ pc' = "visits_loop"
    /\ UNCHANGED <<authenticated, password, inputs, capital_cost_total,
                   rn_fte_required, rn_cost_total, finVars, dcfVars, outVars>>

\* Faulty variant of Utilization: the cap is not applied.
UtilizationUncapped(i, y) ==
    RMul(i.initial_utilization, RPow(RAdd(R(1), i.annual_growth), y))

\* Line 72.
Utilization(i, y) ==
    RMin(RMul(i.initial_utilization, RPow(RAdd(R(1), i.annual_growth), y)),
         i.max_utilization)

\* Lines 71-75, one iteration.
VisitsStep ==
    /\ pc = "visits_loop"
    /\ year \in Range(inputs.forecast_years)
    /\ LET utilization == Utilization(inputs, year)
           adjusted_visits == RMul(max_visits, utilization)
       IN  /\ visits_per_year' = Append(visits_per_year, adjusted_visits)
           /\ utilization_by_year' = Append(utilization_by_year, utilization)
    /\ year' = year + 1
    /\ UNCHANGED <<authenticated, password, pc, inputs, calcVars,
                   finVars, dcfVars, outVars>>

\* Line 80, one element.
OperatingCost(sc) ==
    RAdd(RAdd(rn_cost_total, R(inputs.overhead_cost)), sc)

\* Lines 78-87, once the first loop has run out.
Financials ==
    /\ pc = "visits_loop"
    /\ year \notin Range(inputs.forecast_years)
    /\ LET rev == [k \in DOMAIN visits_per_year |->
                      RMul(visits_per_year[k], R(inputs.reimbursement))]
           sup == [k \in DOMAIN visits_per_year |->
                      RMul(visits_per_year[k], R(inputs.supply_cost_per_visit))]
           opc == [k \in DOMAIN sup |-> OperatingCost(sup[k])]
       IN  /\ revenue' = rev
           /\ supply_costs' = sup
           /\ operating_costs' = opc
           /\ net_income' = [k \in DOMAIN rev |-> RSub(rev[k], opc[k])]
    /\ cumulative_cashflow' = <<>>
    /\ discounted_cashflow' = <<>>
    /\ cumulative_npv' = <<>>
    /\ total_npv' = R(0)
    /\ year' = 0
    /\ pc' = "dcf_loop"
    /\ UNCHANGED <<authenticated, password, inputs, calcVars, visitVars,
                   cash, outVars>>

\* Faulty variant of Cash: the capital outlay is charged in every year.
CashCapitalEveryYear(y) ==
    RSub(net_income[y + 1], capital_cost_total)

\* Line 90.
Cash(y) ==
    IF y > 0 THEN net_income[y + 1]
    ELSE RSub(net_income[y + 1], capital_cost_total)

\* Line 91.
Discounted(c, y) ==
    RDiv(c, RPow(RAdd(R(1), inputs.discount_rate), y))

\* Lines 89-95, one iteration.
DcfStep ==
    /\ pc = "dcf_loop"
    /\ year \in Range(inputs.forecast_years)
    /\ LET c == Cash(year)
           discounted == Discounted(c, year)
       IN  /\ cash' = c
           /\ total_npv' = RAdd(total_npv, discounted)
           /\ discounted_cashflow' = Append(discounted_cashflow, discounted)
           /\ cumulative_cashflow' =
                 Append(cumulative_cashflow,
                        RSub(RSum(net_income, year + 1), capital_cost_total))
           /\ cumulative_npv' = Append(cumulative_npv, RAdd(total_npv, discounted))
    /\ year' = year + 1
    /\ UNCHANGED <<authenticated, password, pc, inputs, calcVars, visitVars,
                   finVars, outVars>>

(* ------------------------------ the output ---------------------------- *)

\* np.round over a list.
RoundAll(s) == [k \in DOMAIN s |-> RRound(s[k])]

\* Line 100: list(range(1, forecast_years + 1)).
YearColumn(n) == [k \in 1 .. n |-> k]

\* Lines 99-109: the columns of the frame.  The utilization column is the
\* text of u*100 with one decimal, held here as tenths of a percent.
SummaryColumns ==
    [ Year |-> YearColumn(inputs.forecast_years),
      Utilization |-> [k \in DOMAIN utilization_by_year |->
                          RRound(RMul(utilization_by_year[k], R(1000)))],
      Visits |-> RoundAll(visits_per_year),
      Revenue |-> RoundAll(revenue),
      OpCosts |-> RoundAll(operating_costs),
      NetIncome |-> RoundAll(net_income),
      CumCashflow |-> RoundAll(cumulative_cashflow),
      NPV |-> RoundAll(discounted_cashflow),
      CumNPV |-> RoundAll(cumulative_npv) ]

\* pd.DataFrame(dict of lists) raises ValueError unless all lists have one length.
SameLength(cols) ==
    \A a, b \in DOMAIN cols : Len(cols[a]) = Len(cols[b])

\* Lines 98-119, once the second loop has run out: the frame is built and the
\* table is sent to the page.
SummaryTable ==
    /\ pc = "dcf_loop"
    /\ year \notin Range(inputs.forecast_years)
    /\ IF SameLength(SummaryColumns)
       THEN /\ summary_df' = SummaryColumns
            /\ emitted' = Append(emitted, "table")
            /\ pc' = "npv_chart"
       ELSE /\ pc' = "failed"
            /\ UNCHANGED <<summary_df, emitted>>
    /\ UNCHANGED <<authenticated, password, inputs, year, calcVars, visitVars,
                   finVars, dcfVars, final_npv>>

\* Lines 122-132: the cumulative-NPV chart is drawn from the frame.
NpvChart ==
    /\ pc = "npv_chart"
    /\ emitted' = Append(emitted, "npv_chart")
    /\ pc' = "interpretation"
    /\ UNCHANGED <<authenticated, password, inputs, year, calcVars, visitVars,
                   finVars, dcfVars, summary_df, final_npv>>

\* Faulty variant of FinalNpv: the first element, not the last.
FinalNpvFirst(s) == s[1]

\* Line 135: cumulative_npv[-1] of a non-empty list.
FinalNpv(s) == s[Len(s)]

\* Lines 135-139.
Interpretation ==
    /\ pc = "interpretation"
    /\ cumulative_npv # <<>>
    /\ final_npv' = FinalNpv(cumulative_npv)
    /\ emitted' = Append(emitted,
                         IF FinalNpv(cumulative_npv)[1] > 0 THEN "success" ELSE "error")
    /\ pc' = "visits_chart"
    /\ UNCHANGED <<authenticated, password, inputs, year, calcVars, visitVars,
                   finVars, dcfVars, summary_df>>

\* Line 135 with an empty list: cumulative_npv[-1] raises IndexError and the
\* run ends there, the table and the first chart already on the page.
InterpretationIndexError ==
    /\ pc = "interpretation"
    /\ cumulative_npv = <<>>
    /\ pc' = "failed"
    /\ UNCHANGED <<authenticated, password, inputs, year, calcVars, visitVars,
                   finVars, dcfVars, outVars>>

\* Lines 142-201: the visits chart and the static tabs; the run ends.
VisitsChart ==
    /\ pc = "visits_chart"
    /\ emitted' = Append(emitted, "visits_chart")
    /\ pc' = "done"
    /\ UNCHANGED <<authenticated, password, inputs, year, calcVars, visitVars,
                   finVars, dcfVars, summary_df, final_npv>>

(* --------------------------- the specification ------------------------ *)

Next ==
    \/ GatePass
    \/ GateLogin
    \/ GateStop
    \/ Rerun
    \/ ReadInputs
    \/ Capital
    \/ Staffing
    \/ StaffingZeroDivision
    \/ MaxVisits
    \/ VisitsStep
    \/ Financials
    \/ DcfStep
    \/ SummaryTable
    \/ NpvChart
    \/ Interpretation
    \/ InterpretationIndexError
    \/ VisitsChart

Spec == Init /\ [][Next]_vars

(* ------------------------------ properties ---------------------------- *)

\* The input invariants of the data model: counts and money non-negative,
\* chairs per RN positive, at least one forecast year, cap not below the start.
ValidInputs ==
    /\ inputs.num_chairs >= 1
    /\ inputs.sqft_per_chair >= 0
    /\ inputs.cost_per_sqft >= 0
    /\ inputs.equipment_cost_per_chair >= 0
    /\ inputs.rn_cost >= 0
    /\ inputs.chairs_per_rn > 0
    /\ inputs.shifts_per_day >= 0
    /\ inputs.supply_cost_per_visit >= 0
    /\ inputs.overhead_cost >= 0
    /\ inputs.reimbursement >= 0
    /\ inputs.visits_per_chair_per_day[1] >= 0
    /\ inputs.days_per_year >= 0
    /\ inputs.forecast_years >= 1
    /\ inputs.discount_rate[1] >= 0
    /\ inputs.annual_growth[1] >= 0
    /\ RLe(inputs.initial_utilization, inputs.max_utilization)

InputsRead == inputs # NoInputs

Emitted(x) == \E k \in DOMAIN emitted : emitted[k] = x

\* 1 + annual_growth.
GrowthFactor == RAdd(R(1), inputs.annual_growth)

\* C1: once the table is out, every per-year series and every column of the
\* frame has exactly forecast_years entries and the Year column reads
\* 1, 2, ..., forecast_years; a run on valid inputs never ends in an exception.
C1_RowCount ==
    /\ Emitted("table") =>
          /\ \A s \in {utilization_by_year, visits_per_year, revenue, operating_costs,
                       net_income, discounted_cashflow, cumulative_cashflow,
                       cumulative_npv} : Len(s) = inputs.forecast_years
          /\ \A c \in DOMAIN summary_df : Len(summary_df[c]) = inputs.forecast_years
          /\ \A k \in 1 .. inputs.forecast_years : summary_df.Year[k] = k
    /\ (InputsRead /\ ValidInputs) => pc # "failed"

C1_Witness ==
    /\ pc = "done"
    /\ ValidInputs
    /\ inputs.forecast_years = MaxYears
    /\ Len(summary_df.Year) = MaxYears

\* C2: an input that violates an invariant is rejected before anything is
\* computed from it: no capital cost, staffing, visits or NPV value exists.
C2_RejectedBeforeComputing ==
    (InputsRead /\ ~ValidInputs) =>
        /\ capital_cost_total = Undef
        /\ rn_cost_total = Undef
        /\ max_visits = Undef
        /\ visits_per_year = <<>>
        /\ total_npv = Undef
        /\ emitted = <<>>

\* C3: a run that ends in a failure has put no result element on the page, and
\* a run that ends normally has put all of them there.
C3_AllOrNothing ==
    /\ pc = "failed" => emitted = <<>>
    /\ pc = "done" =>
          /\ Emitted("table") /\ Emitted("npv_chart") /\ Emitted("visits_chart")
          /\ Emitted("success") \/ Emitted("error")
          /\ final_npv # Undef
          /\ Len(summary_df.Year) = inputs.forecast_years

\* C4: utilization never decreases from one year to the next, never exceeds
\* max_utilization, and with zero growth equals initial_utilization every year.
C4_Ramp ==
    \A y \in DOMAIN utilization_by_year :
        /\ (y + 1 \in DOMAIN utilization_by_year =>
                RLe(utilization_by_year[y], utilization_by_year[y + 1]))
        /\ RLe(utilization_by_year[y], inputs.max_utilization)
        /\ (inputs.annual_growth = R(0) =>
                utilization_by_year[y] = inputs.initial_utilization)

\* C5: final_npv is the last cumulative_npv and the left-to-right sum of all
\* discounted cash flows; every cumulative_npv[y] is the running sum up to y,
\* so with one forecast year the only row's cumulative NPV is discounted[0].
C5_FinalNpv ==
    /\ \A y \in DOMAIN cumulative_npv :
          cumulative_npv[y] = RSum(discounted_cashflow, y)
    /\ (cumulative_npv # <<>> /\ inputs.forecast_years = 1) =>
          cumulative_npv[1] = discounted_cashflow[1]
    /\ Emitted("success") \/ Emitted("error") =>
          /\ final_npv = cumulative_npv[inputs.forecast_years]
          /\ final_npv = RSum(discounted_cashflow, inputs.forecast_years)

C5_Witness ==
    /\ pc = "done"
    /\ inputs.forecast_years >= 2
    /\ inputs.discount_rate # R(0)
    /\ final_npv # cumulative_npv[1]
    /\ final_npv = cumulative_npv[Len(cumulative_npv)]

\* C6: capital_cost_total is num_chairs * sqft_per_chair * cost_per_sqft +
\* num_chairs * equipment_cost_per_chair whatever the other inputs are, and
\* once assigned it keeps its value until the run is over.
C6_CapitalCost ==
    /\ [](pc \notin {"gate", "stopped", "inputs", "capital"} =>
            capital_cost_total =
                R(inputs.num_chairs * inputs.sqft_per_chair * inputs.cost_per_sqft
                  + inputs.num_chairs * inputs.equipment_cost_per_chair))
    /\ [][capital_cost_total # Undef =>
            (capital_cost_total' = capital_cost_total \/ pc' = "gate")]_vars

C6_Witness ==
    /\ pc = "done"
    /\ inputs.num_chairs = 20
    /\ inputs.equipment_cost_per_chair = 20
    /\ capital_cost_total = R(1200)

ClaimedCash(y) ==
    IF y = 1 THEN RSub(net_income[1], capital_cost_total) ELSE net_income[y]

\* C8: with a zero discount rate every discounted cash flow is the cash flow
\* itself, capital being subtracted in year 0 only, and in every row
\* cumulative NPV = cumulative cash flow = sum(net_income[0..y]) - capital.
C8_ZeroDiscount ==
    inputs.discount_rate = R(0) =>
        /\ \A y \in DOMAIN discounted_cashflow :
              /\ discounted_cashflow[y] = ClaimedCash(y)
              /\ cumulative_npv[y] = cumulative_cashflow[y]
              /\ cumulative_cashflow[y] =
                    RSub(RSum(net_income, y), capital_cost_total)
        /\ discounted_cashflow # <<>> =>
              cash = ClaimedCash(Len(discounted_cashflow))

C8_Witness ==
    /\ pc = "done"
    /\ inputs.discount_rate = R(0)
    /\ inputs.forecast_years >= 2
    /\ capital_cost_total # R(0)
    /\ cumulative_npv[2] = cumulative_cashflow[2]

\* C9: every year's net income is visits * reimbursement - (RN cost + overhead
\* + visits * supply cost), the RN cost being ceil(num_chairs / chairs_per_rn
\* * shifts_per_day) * rn_cost in every year; 20 chairs at 4 per RN in 2 shifts
\* need 10 FTE.
C9_NetIncome ==
    /\ \A y \in DOMAIN net_income :
          /\ net_income[y] =
                RSub(RMul(visits_per_year[y], R(inputs.reimbursement)),
                     RAdd(RAdd(rn_cost_total, R(inputs.overhead_cost)),
                          RMul(visits_per_year[y], R(inputs.supply_cost_per_visit))))
          /\ RSub(operating_costs[y], supply_costs[y]) =
                RAdd(rn_cost_total, R(inputs.overhead_cost))
    /\ rn_cost_total # Undef =>
          /\ rn_fte_required[2] = 1
          /\ rn_fte_required[1] * inputs.chairs_per_rn
                >= inputs.num_chairs * inputs.shifts_per_day
          /\ (rn_fte_required[1] - 1) * inputs.chairs_per_rn
                < inputs.num_chairs * inputs.shifts_per_day
          /\ rn_cost_total = R(rn_fte_required[1] * inputs.rn_cost)
    /\ (rn_fte_required # Undef /\ inputs.num_chairs = 20
            /\ inputs.chairs_per_rn = 4 /\ inputs.shifts_per_day = 2) =>
          rn_fte_required = R(10)

C9_Witness ==
    /\ pc = "done"
    /\ inputs.num_chairs = 20
    /\ inputs.chairs_per_rn = 4
    /\ inputs.shifts_per_day = 2
    /\ rn_fte_required = R(10)
    /\ Len(net_income) >= 2

\* C10: the flag starts false; a run is past the gate only with the flag true
\* and leaves the gate for the inputs only when the flag is already true; the
\* flag becomes true only on the right password and never becomes false again.
C10_Gate ==
    /\ ~authenticated
    /\ [](pc \notin {"gate", "stopped"} => authenticated)
    /\ [][(pc = "gate" /\ pc' = "inputs") => authenticated]_vars
    /\ [][(~authenticated /\ authenticated') => password' = PASSWORD]_vars
    /\ [][authenticated => authenticated']_vars

C10_Witness ==
    /\ pc = "done"
    /\ authenticated
    /\ Emitted("table")
    /\ final_npv # Undef

====
